---- MODULE Spec2Model ----
(***************************************************************************)
(* A model of kansuji-rs (src/src/lib.rs): the parser of Japanese numeral  *)
(* text (parse_keta, parse_kansuji), the renderer (ToString) and the       *)
(* integer conversions (From<u128> for Kansuji, From<Kansuji> for u128).   *)
(*                                                                         *)
(* Characters are written in romaji, following the source's own variable   *)
(* names (sen, hyaku, juu, iti, man, oku, tyou, kei, gai, bu, rin, mou):   *)
(*   rei=0 iti=1 ni=2 san=3 yon=4 go=5 roku=6 nana=7 hati=8 kyuu=9         *)
(*   sen=1000 hyaku=100 juu=10                                             *)
(*   man=10^4 oku=10^8 tyou=10^12 kei=10^16 gai=10^20                      *)
(*   bu=10^-1 rin=10^-2 mou=10^-3                                          *)
(*   ho = a hiragana letter, a character outside the numeral glyph set     *)
(***************************************************************************)
EXTENDS Integers, Sequences, FiniteSets

VARIABLES
    pc,        \* position of the caller: which conversions have been applied
    input,     \* the text handed to Kansuji::try_from
    parsed,    \* the Result of parse_kansuji on input
    num,       \* the u128 handed to Kansuji::from, as decimal digits (low first)
    kansuji,   \* Kansuji::from(num)
    back,      \* u128::from(kansuji), as decimal digits (low first)
    text,      \* kansuji.to_string()
    reparsed,  \* Kansuji::try_from(&text)
    retext,    \* reparsed.unwrap().to_string()
    locals,    \* the locals of a running parse_keta
    peeked,    \* chars.peek() of the cursor handed to parse_keta
    consumed,  \* the number of characters taken from that cursor
    group,     \* the Result parse_keta returned
    width,     \* the integer type of num: 8, 16, 32, 64, 128 bits or usize
    millis     \* ((value - n as f64) * 1000.0) as usize of a float value

vars == <<pc, input, parsed, num, kansuji, back, text, reparsed, retext,
          locals, peeked, consumed, group, width, millis>>

\* the variables of the steps of parse_keta
ketaVars == <<locals, peeked, consumed, group>>

\* the variables of the conversions of the other number types
numVars == <<width, millis>>

None == "None"

(***************************************************************************)
(* Bounds of the model.                                                    *)
(***************************************************************************)
\* longest input text handed to the parser
MaxLen == 4
\* most non-zero decimal digits of an integer handed to Kansuji::from
MaxNonZero == 2

(***************************************************************************)
(* KansujiField: one decimal digit (lib.rs 14-74).                         *)
(***************************************************************************)
KansujiField == {"rei", "iti", "ni", "san", "yon", "go", "roku", "nana", "hati", "kyuu"}

from_int(n) ==
    CASE n = 0 -> "rei"
      [] n = 1 -> "iti"
      [] n = 2 -> "ni"
      [] n = 3 -> "san"
      [] n = 4 -> "yon"
      [] n = 5 -> "go"
      [] n = 6 -> "roku"
      [] n = 7 -> "nana"
      [] n = 8 -> "hati"
      [] n = 9 -> "kyuu"
      [] OTHER -> "unreachable"

to_int(f) ==
    CASE f = "rei" -> 0
      [] f = "iti" -> 1
      [] f = "ni" -> 2
      [] f = "san" -> 3
      [] f = "yon" -> 4
      [] f = "go" -> 5
      [] f = "roku" -> 6
      [] f = "nana" -> 7
      [] f = "hati" -> 8
      [] f = "kyuu" -> 9

\* KansujiField::to_str: rei and iti give the empty string
to_str(f) ==
    CASE f = "rei" -> << >>
      [] f = "iti" -> << >>
      [] OTHER -> <<f>>

(***************************************************************************)
(* KansujiKeta: a group of four digits (lib.rs 76-151).                    *)
(***************************************************************************)
KetaDefault == [sen |-> "rei", hyaku |-> "rei", juu |-> "rei", iti |-> "rei"]

is_zero(k) ==
    k.sen = "rei" /\ k.hyaku = "rei" /\ k.juu = "rei" /\ k.iti = "rei"

is_one(k) ==
    k.sen = "rei" /\ k.hyaku = "rei" /\ k.juu = "rei" /\ k.iti = "iti"

\* impl ToString for KansujiKeta
KetaToString(k) ==
    (IF k.sen # "rei" THEN to_str(k.sen) \o <<"sen">> ELSE << >>)
    \o (IF k.hyaku # "rei" THEN to_str(k.hyaku) \o <<"hyaku">> ELSE << >>)
    \o (IF k.juu # "rei" THEN to_str(k.juu) \o <<"juu">> ELSE << >>)
    \o to_str(k.iti)

\* KetaToUsize with the weight of the thousands digit mistyped
KetaToUsizeWrongWeight(k) ==
    to_int(k.iti) + to_int(k.juu) * 10 + to_int(k.hyaku) * 100 + to_int(k.sen) * 100

\* impl From<KansujiKeta> for usize
KetaToUsize(k) ==
    to_int(k.iti) + to_int(k.juu) * 10 + to_int(k.hyaku) * 100 + to_int(k.sen) * 1000

\* KetaFromUsize without the reduction of the value modulo 10000
KetaFromUsizeNoMod(value) ==
    LET n == value
        sen == (n \div 1000) % 256
        hyaku == ((n % 1000) \div 100) % 256
        juu == ((n % 100) \div 10) % 256
        ichi == (n % 10) % 256
    IN [sen |-> from_int(sen), hyaku |-> from_int(hyaku),
        juu |-> from_int(juu), iti |-> from_int(ichi)]

\* impl From<usize> for KansujiKeta, on a value below 10^9; "as u8" is % 256
KetaFromUsize(value) ==
    LET n == value % 10000
        sen == (n \div 1000) % 256
        hyaku == ((n % 1000) \div 100) % 256
        juu == ((n % 100) \div 10) % 256
        ichi == (n % 10) % 256
    IN [sen |-> from_int(sen), hyaku |-> from_int(hyaku),
        juu |-> from_int(juu), iti |-> from_int(ichi)]

(***************************************************************************)
(* Kansuji: six groups and three fractional digits (lib.rs 153-180).       *)
(***************************************************************************)
KansujiDefault ==
    [gai |-> KetaDefault, kei |-> KetaDefault, tyou |-> KetaDefault,
     oku |-> KetaDefault, man |-> KetaDefault, iti |-> KetaDefault,
     bu |-> "rei", rin |-> "rei", mou |-> "rei"]

\* KansujiError::UnexpectedChar(c), as the Err of a Result
UnexpectedChar(c) == [ok |-> FALSE, err |-> "UnexpectedChar", char |-> c]

Ok(v) == [ok |-> TRUE, value |-> v]

(***************************************************************************)
(* The cursor: a Peekable<Chars> is the text and the index of its next     *)
(* character; peek() is None at the end of the text.                       *)
(***************************************************************************)
Peek(chars, pos) == IF pos <= Len(chars) THEN chars[pos] ELSE None

(***************************************************************************)
(* parse_keta (lib.rs 422-537).                                            *)
(***************************************************************************)
\* the locals of parse_keta at its entry (lib.rs 425-430)
KetaInit ==
    [sen |-> None, hyaku |-> None, juu |-> None, iti |-> None,
     keta |-> 4, field |-> None]

\* the digit arms of the match (lib.rs 434-469): there is no arm for rei
KetaDigit(c) ==
    CASE c = "iti" -> "iti"
      [] c = "ni" -> "ni"
      [] c = "san" -> "san"
      [] c = "yon" -> "yon"
      [] c = "go" -> "go"
      [] c = "roku" -> "roku"
      [] c = "nana" -> "nana"
      [] c = "hati" -> "hati"
      [] c = "kyuu" -> "kyuu"
      [] OTHER -> None

\* the markers that end a group without an error (lib.rs 512)
KetaTerminators == {"man", "tyou", "kei", "gai"}

\* FieldOr that forgets the pending digit
FieldOrDefault(field, other) == other

\* if let Some(f) = field { f } else { other }
FieldOr(field, other) == IF field # None THEN field ELSE other

\* PlaceBelow with >= for >
PlaceBelowOrEqual(keta, place) == keta >= place

\* the guard of a place-marker arm (lib.rs 471, 485, 499)
PlaceBelow(keta, place) == keta > place

\* one iteration of the while loop on the peeked character c (None at the end):
\* kind "next" consumes c and loops, "break" leaves the loop without
\* consuming, "err" returns Err(UnexpectedChar(c))
KetaStep(st, c) ==
    CASE c = None ->
           [kind |-> "break", st |-> [st EXCEPT !.iti = FieldOr(st.field, "rei")]]
      [] c # None /\ KetaDigit(c) # None ->
           [kind |-> "next", st |-> [st EXCEPT !.field = KetaDigit(c)]]
      [] c = "sen" ->
           IF PlaceBelow(st.keta, 3)
           THEN [kind |-> "next",
                 st |-> [st EXCEPT !.sen = FieldOr(st.field, "iti"),
                                   !.keta = 3, !.field = None]]
           ELSE [kind |-> "err", st |-> st]
      [] c = "hyaku" ->
           IF PlaceBelow(st.keta, 2)
           THEN [kind |-> "next",
                 st |-> [st EXCEPT !.hyaku = FieldOr(st.field, "iti"),
                                   !.keta = 2, !.field = None]]
           ELSE [kind |-> "err", st |-> st]
      [] c = "juu" ->
           IF PlaceBelow(st.keta, 1)
           THEN [kind |-> "next",
                 st |-> [st EXCEPT !.juu = FieldOr(st.field, "iti"),
                                   !.keta = 1, !.field = None]]
           ELSE [kind |-> "err", st |-> st]
      [] c \in KetaTerminators ->
           [kind |-> "break", st |-> [st EXCEPT !.iti = FieldOr(st.field, "rei")]]
      [] OTHER ->
           [kind |-> "err", st |-> st]

\* the KansujiKeta built from the locals (lib.rs 531-536)
KetaResult(st) ==
    [sen |-> FieldOr(st.sen, "rei"), hyaku |-> FieldOr(st.hyaku, "rei"),
     juu |-> FieldOr(st.juu, "rei"), iti |-> FieldOr(st.iti, "rei")]

\* ErrAt after a chars.next(): the character after the rejected one
ErrAfterNext(chars, pos) == UnexpectedChar(Peek(chars, pos + 1))

\* return Err(KansujiError::UnexpectedChar(*c)), c being the peeked character
\* (lib.rs 481, 495, 509, 520 and 235, 247, 259, 271, 283, 299, 315, 331)
ErrAt(chars, pos) == UnexpectedChar(Peek(chars, pos))

\* the while loop of parse_keta from cursor position pos: the Result and the
\* position of the cursor when parse_keta returns
RECURSIVE KetaLoop(_, _, _)
KetaLoop(chars, pos, st) ==
    IF st.keta > 0
    THEN LET c == Peek(chars, pos)
             r == KetaStep(st, c)
         IN CASE r.kind = "next" -> KetaLoop(chars, pos + 1, r.st)
              [] r.kind = "break" -> [res |-> Ok(KetaResult(r.st)), pos |-> pos]
              [] r.kind = "err" -> [res |-> ErrAt(chars, pos), pos |-> pos]
    ELSE [res |-> Ok(KetaResult(st)), pos |-> pos]

parse_keta(chars, pos) == KetaLoop(chars, pos, KetaInit)

(***************************************************************************)
(* parse_kansuji (lib.rs 218-356).                                         *)
(***************************************************************************)
\* LevelAbove with >= for >
LevelAboveOrEqual(keta, level) == keta >= level

\* the guard of a magnitude-marker arm (lib.rs 227, 239, 251, 263, 275)
LevelAbove(keta, level) == keta > level

\* the guard of a fractional-marker arm (lib.rs 287-290, 303-306, 319-322)
FractionOk(keta, level, kansuji_keta) ==
    /\ keta > level
    /\ kansuji_keta.hyaku = "rei"
    /\ kansuji_keta.sen = "rei"
    /\ kansuji_keta.juu = "rei"

\* the body of the loop after parse_keta returned Ok(kansuji_keta), on the
\* peeked character c (None at the end): kind "next" consumes c and loops,
\* "take" consumes c and leaves the loop, "break" leaves it without
\* consuming, "err" returns Err(UnexpectedChar(c))
KansujiStep(k, keta, kansuji_keta, c) ==
    CASE c = "gai" ->
           IF LevelAbove(keta, 5)
           THEN [kind |-> "next", k |-> [k EXCEPT !.gai = kansuji_keta], keta |-> 5]
           ELSE [kind |-> "err", k |-> k, keta |-> keta]
      [] c = "kei" ->
           IF LevelAbove(keta, 4)
           THEN [kind |-> "next", k |-> [k EXCEPT !.kei = kansuji_keta], keta |-> 4]
           ELSE [kind |-> "err", k |-> k, keta |-> keta]
      [] c = "tyou" ->
           IF LevelAbove(keta, 3)
           THEN [kind |-> "next", k |-> [k EXCEPT !.tyou = kansuji_keta], keta |-> 3]
           ELSE [kind |-> "err", k |-> k, keta |-> keta]
      [] c = "oku" ->
           IF LevelAbove(keta, 2)
           THEN [kind |-> "next", k |-> [k EXCEPT !.oku = kansuji_keta], keta |-> 2]
           ELSE [kind |-> "err", k |-> k, keta |-> keta]
      [] c = "man" ->
           IF LevelAbove(keta, 1)
           THEN [kind |-> "next", k |-> [k EXCEPT !.man = kansuji_keta], keta |-> 1]
           ELSE [kind |-> "err", k |-> k, keta |-> keta]
      [] c = "bu" ->
           IF FractionOk(keta, -1, kansuji_keta)
           THEN [kind |-> "next", k |-> [k EXCEPT !.bu = kansuji_keta.iti], keta |-> -1]
           ELSE [kind |-> "err", k |-> k, keta |-> keta]
      [] c = "rin" ->
           IF FractionOk(keta, -2, kansuji_keta)
           THEN [kind |-> "next", k |-> [k EXCEPT !.rin = kansuji_keta.iti], keta |-> -2]
           ELSE [kind |-> "err", k |-> k, keta |-> keta]
      [] c = "mou" ->
           IF FractionOk(keta, -3, kansuji_keta)
           THEN [kind |-> "take", k |-> [k EXCEPT !.mou = kansuji_keta.iti], keta |-> keta]
           ELSE [kind |-> "err", k |-> k, keta |-> keta]
      [] c = None ->
           [kind |-> "break", k |-> [k EXCEPT !.iti = kansuji_keta], keta |-> keta]
      [] OTHER ->
           IF keta > 0
           THEN [kind |-> "next", k |-> [k EXCEPT !.iti = kansuji_keta], keta |-> 0]
           ELSE [kind |-> "break", k |-> k, keta |-> keta]

\* the loop of parse_kansuji from cursor position pos: the Result, the
\* position of the cursor and the level (keta) when parse_kansuji returns
RECURSIVE KansujiLoop(_, _, _, _)
KansujiLoop(chars, pos, k, keta) ==
    LET g == parse_keta(chars, pos)
    IN IF ~g.res.ok
       THEN [res |-> g.res, pos |-> g.pos, keta |-> keta]
       ELSE LET c == Peek(chars, g.pos)
                r == KansujiStep(k, keta, g.res.value, c)
            IN CASE r.kind = "next" -> KansujiLoop(chars, g.pos + 1, r.k, r.keta)
                 [] r.kind = "take" -> [res |-> Ok(r.k), pos |-> g.pos + 1, keta |-> r.keta]
                 [] r.kind = "break" -> [res |-> Ok(r.k), pos |-> g.pos, keta |-> r.keta]
                 [] r.kind = "err" -> [res |-> ErrAt(chars, g.pos), pos |-> g.pos, keta |-> r.keta]

\* the state of parse_kansuji when it returns
ParseRun(chars) == KansujiLoop(chars, 1, KansujiDefault, 6)

parse_kansuji(chars) == ParseRun(chars).res

\* try_from refusing the empty text with UnexpectedEnd
try_from_strict(value) ==
    IF value = << >> THEN [ok |-> FALSE, err |-> "UnexpectedEnd"] ELSE parse_kansuji(value)

\* impl TryFrom<&str> / TryFrom<String> / TryFrom<&String> for Kansuji
try_from(value) == parse_kansuji(value)

(***************************************************************************)
(* impl ToString for Kansuji (lib.rs 882-928).                             *)
(***************************************************************************)
\* the test that returns the text rei (lib.rs 885-896)
AllZero(k) ==
    /\ is_zero(k.gai) /\ is_zero(k.kei) /\ is_zero(k.tyou)
    /\ is_zero(k.oku) /\ is_zero(k.man) /\ is_zero(k.iti)
    /\ k.bu = "rei" /\ k.rin = "rei" /\ k.mou = "rei"

\* one magnitude segment: format!("{}m", keta.to_string()) if keta is not zero
Segment(keta, m) == IF ~is_zero(keta) THEN KetaToString(keta) \o <<m>> ELSE << >>

\* the base group (lib.rs 912-916)
BaseSegment(keta) == IF is_one(keta) THEN <<"iti">> ELSE KetaToString(keta)

\* Suffix without the test of the digit
SuffixAlways(f, m) == to_str(f) \o <<m>>

\* one fractional suffix: format!("{}m", f.to_str()) if f is not rei
Suffix(f, m) == IF f # "rei" THEN to_str(f) \o <<m>> ELSE << >>

to_string(k) ==
    IF AllZero(k)
    THEN <<"rei">>
    ELSE Segment(k.gai, "gai") \o Segment(k.kei, "kei") \o Segment(k.tyou, "tyou")
         \o Segment(k.oku, "oku") \o Segment(k.man, "man")
         \o BaseSegment(k.iti)
         \o Suffix(k.bu, "bu") \o Suffix(k.rin, "rin") \o Suffix(k.mou, "mou")

(***************************************************************************)
(* u128 arithmetic.  A u128 is kept as the sequence of its decimal digits, *)
(* lowest first and without leading zeros (0 is the empty sequence), since *)
(* the values of the supported range, up to 10^24, exceed the integers of  *)
(* the model checker.                                                      *)
(***************************************************************************)
RECURSIVE Strip(_)
Strip(d) == IF d # << >> /\ d[Len(d)] = 0 THEN Strip(SubSeq(d, 1, Len(d) - 1)) ELSE d

\* value / 10^e
DivPow10(d, e) == IF Len(d) <= e THEN << >> ELSE SubSeq(d, e + 1, Len(d))

\* value % 10^e
ModPow10(d, e) == IF Len(d) <= e THEN d ELSE Strip(SubSeq(d, 1, e))

\* value * 10^e
MulPow10(d, e) == IF d = << >> THEN << >> ELSE [i \in 1..e |-> 0] \o d

\* the digits of a small integer
RECURSIVE Digits(_)
Digits(n) == IF n = 0 THEN << >> ELSE <<n % 10>> \o Digits(n \div 10)

\* a group quotient as an integer of the model: its nine lowest digits, which
\* are the whole of it for every number below 10^29 and which decide
\* value % 10000 for all numbers
RECURSIVE Low9(_, _)
Low9(d, i) ==
    IF i > Len(d) \/ i > 9 THEN 0 ELSE d[i] + 10 * Low9(d, i + 1)

\* a + b, digit by digit with a carry
RECURSIVE AddFrom(_, _, _, _)
AddFrom(a, b, i, carry) ==
    IF i > Len(a) /\ i > Len(b)
    THEN (IF carry = 0 THEN << >> ELSE <<carry>>)
    ELSE LET x == IF i <= Len(a) THEN a[i] ELSE 0
             y == IF i <= Len(b) THEN b[i] ELSE 0
             t == x + y + carry
         IN <<t % 10>> \o AddFrom(a, b, i + 1, t \div 10)

Add(a, b) == AddFrom(a, b, 1, 0)

(***************************************************************************)
(* impl From<u128> for Kansuji (lib.rs 675-695).                           *)
(***************************************************************************)
\* KansujiKeta::from(v as usize): From<usize> for KansujiKeta starts with
\* KansujiKeta::from(v as usize)
KetaFrom(v) == KetaFromUsize(Low9(v, 1))

FromU128(value) ==
    LET gai == DivPow10(value, 20)
        kei == DivPow10(ModPow10(value, 20), 16)
        tyou == DivPow10(ModPow10(value, 16), 12)
        oku == DivPow10(ModPow10(value, 12), 8)
        man == DivPow10(ModPow10(value, 8), 4)
        iti == ModPow10(value, 4)
    IN [gai |-> KetaFrom(gai), kei |-> KetaFrom(kei), tyou |-> KetaFrom(tyou),
        oku |-> KetaFrom(oku), man |-> KetaFrom(man), iti |-> KetaFrom(iti),
        bu |-> "rei", rin |-> "rei", mou |-> "rei"]

\* impl From<u64> for Kansuji (lib.rs 704-723)
FromU64(value) ==
    LET kei == DivPow10(value, 16)
        tyou == DivPow10(ModPow10(value, 16), 12)
        oku == DivPow10(ModPow10(value, 12), 8)
        man == DivPow10(ModPow10(value, 8), 4)
        iti == ModPow10(value, 4)
    IN [gai |-> KetaDefault, kei |-> KetaFrom(kei), tyou |-> KetaFrom(tyou),
        oku |-> KetaFrom(oku), man |-> KetaFrom(man), iti |-> KetaFrom(iti),
        bu |-> "rei", rin |-> "rei", mou |-> "rei"]

\* impl From<usize> for Kansuji (lib.rs 697-702): value as u64
FromUsize(value) == FromU64(value)

\* impl From<u32> for Kansuji (lib.rs 725-742)
FromU32(value) ==
    LET oku == DivPow10(value, 8)
        man == DivPow10(ModPow10(value, 8), 4)
        iti == ModPow10(value, 4)
    IN [gai |-> KetaDefault, kei |-> KetaDefault, tyou |-> KetaDefault,
        oku |-> KetaFrom(oku), man |-> KetaFrom(man), iti |-> KetaFrom(iti),
        bu |-> "rei", rin |-> "rei", mou |-> "rei"]

\* impl From<u16> for Kansuji (lib.rs 744-760)
FromU16(value) ==
    LET man == DivPow10(value, 4)
        iti == ModPow10(value, 4)
    IN [gai |-> KetaDefault, kei |-> KetaDefault, tyou |-> KetaDefault,
        oku |-> KetaDefault, man |-> KetaFrom(man), iti |-> KetaFrom(iti),
        bu |-> "rei", rin |-> "rei", mou |-> "rei"]

\* impl From<u8> for Kansuji (lib.rs 762-776)
FromU8(value) ==
    [gai |-> KetaDefault, kei |-> KetaDefault, tyou |-> KetaDefault,
     oku |-> KetaDefault, man |-> KetaDefault, iti |-> KetaFrom(value),
     bu |-> "rei", rin |-> "rei", mou |-> "rei"]

\* impl From<f64> for Kansuji (lib.rs 778-804).  The float is given by
\* n = value as u128 and f = ((value - n as f64) * 1000.0) as usize.
FromF64(n, f) ==
    LET bu == f \div 100
        rin == (f % 100) \div 10
        mou == f % 10
    IN [FromU128(n) EXCEPT !.bu = from_int(bu), !.rin = from_int(rin),
                           !.mou = from_int(mou)]

(***************************************************************************)
(* impl From<Kansuji> for u128 (lib.rs 662-673).                           *)
(***************************************************************************)
\* (Into::<usize>::into(keta) as u128) * 10^e
Term(keta, e) == MulPow10(Digits(KetaToUsize(keta)), e)

IntoU128(value) ==
    LET n0 == Term(value.iti, 0)
        n1 == Add(n0, Term(value.man, 4))
        n2 == Add(n1, Term(value.oku, 8))
        n3 == Add(n2, Term(value.tyou, 12))
        n4 == Add(n3, Term(value.kei, 16))
        n5 == Add(n4, Term(value.gai, 20))
    IN n5

(***************************************************************************)
(* The inputs.                                                             *)
(***************************************************************************)
Digit == {"rei", "iti", "ni", "san", "yon", "go", "roku", "nana", "hati", "kyuu"}
Place == {"sen", "hyaku", "juu"}
Magnitude == {"gai", "kei", "tyou", "oku", "man"}
Fraction == {"bu", "rin", "mou"}
\* the glyph set of the numeral notation
Glyph == Digit \cup Place \cup Magnitude \cup Fraction

\* the characters of the input texts: every marker, the digits rei, iti, ni, kyuu
\* (the arms of san..hati are the arm of ni with another digit) and ho, a
\* character outside the glyph set
InputChar == {"rei", "iti", "ni", "kyuu"} \cup Place \cup Magnitude \cup Fraction \cup {"ho"}

\* the texts of n characters
Texts(n) == [1..n -> InputChar]

\* the numbers of the supported range (below 10^24) with at most k non-zero
\* decimal digits, each of them 1, 2 or 9
RECURSIVE Sparse(_)
Sparse(k) ==
    IF k = 0
    THEN {[i \in 1..24 |-> 0]}
    ELSE LET S == Sparse(k - 1)
         IN S \cup {[d EXCEPT ![i] = v] : d \in S, i \in 1..24, v \in {1, 2, 9}}

\* the numbers of the test check_kansuji_1 (lib.rs 941)
TestVector ==
    {Digits(0), Digits(1), Digits(2), Digits(3), Digits(10), Digits(11), Digits(15),
     Digits(200), Digits(76492334), Digits(764923341), Digits(1999999)}

\* the largest number of the supported range, 10^24 - 1
Largest == [i \in 1..24 |-> 9]

Numbers == {Strip(d) : d \in Sparse(MaxNonZero)} \cup TestVector \cup {Largest}

(***************************************************************************)
(* Parsing a text: Kansuji::try_from(input).                               *)
(***************************************************************************)
Init ==
    /\ pc = "text"
    /\ \E n \in 0..MaxLen : input \in Texts(n)
    /\ parsed = None
    /\ num = None /\ kansuji = None /\ back = None
    /\ text = None /\ reparsed = None /\ retext = None
    /\ locals = None /\ peeked = None /\ consumed = 0 /\ group = None
    /\ width = None /\ millis = None

TryFrom ==
    /\ pc = "text"
    /\ parsed' = try_from(input)
    /\ pc' = "parsed"
    /\ UNCHANGED <<input, num, kansuji, back, text, reparsed, retext>>
    /\ UNCHANGED <<ketaVars, numVars>>

Next == TryFrom

Spec == Init /\ [][Next]_vars

(***************************************************************************)
(* Converting a number, as the test check_kansuji_1 does (lib.rs 930-943): *)
(* Kansuji::from(n), kansuji.into(), kansuji.to_string(),                  *)
(* Kansuji::try_from(&s), new_kansuji.unwrap().to_string().                *)
(***************************************************************************)
InitNum ==
    /\ pc = "num"
    /\ num \in Numbers
    /\ input = None /\ parsed = None
    /\ kansuji = None /\ back = None
    /\ text = None /\ reparsed = None /\ retext = None
    /\ locals = None /\ peeked = None /\ consumed = 0 /\ group = None
    /\ width = None /\ millis = None

From ==
    /\ pc = "num"
    /\ kansuji' = FromU128(num)
    /\ pc' = "from"
    /\ UNCHANGED <<input, parsed, num, back, text, reparsed, retext>>
    /\ UNCHANGED <<ketaVars, numVars>>

Into ==
    /\ pc = "from"
    /\ back' = IntoU128(kansuji)
    /\ pc' = "into"
    /\ UNCHANGED <<input, parsed, num, kansuji, text, reparsed, retext>>
    /\ UNCHANGED <<ketaVars, numVars>>

ToString ==
    /\ pc = "into"
    /\ text' = to_string(kansuji)
    /\ pc' = "string"
    /\ UNCHANGED <<input, parsed, num, kansuji, back, reparsed, retext>>
    /\ UNCHANGED <<ketaVars, numVars>>

TryFromText ==
    /\ pc = "string"
    /\ reparsed' = try_from(text)
    /\ pc' = "reparsed"
    /\ UNCHANGED <<input, parsed, num, kansuji, back, text, retext>>
    /\ UNCHANGED <<ketaVars, numVars>>

\* new_kansuji.unwrap().to_string(): unwrap panics on an Err
UnwrapToString ==
    /\ pc = "reparsed"
    /\ reparsed.ok
    /\ retext' = to_string(reparsed.value)
    /\ pc' = "done"
    /\ UNCHANGED <<input, parsed, num, kansuji, back, text, reparsed>>
    /\ UNCHANGED <<ketaVars, numVars>>

UnwrapPanic ==
    /\ pc = "reparsed"
    /\ ~reparsed.ok
    /\ pc' = "panic"
    /\ UNCHANGED <<input, parsed, num, kansuji, back, text, reparsed, retext>>
    /\ UNCHANGED <<ketaVars, numVars>>

NextNum == From \/ Into \/ ToString \/ TryFromText \/ UnwrapToString \/ UnwrapPanic

SpecNum == InitNum /\ [][NextNum]_vars

(***************************************************************************)
(* Running parse_keta (lib.rs 422-537) one iteration of its loop at a      *)
(* time.  The cursor is a Peekable<Chars> over any text: the character it  *)
(* peeks is kept, and the character that follows a consumed one is any     *)
(* character, or the end of the text.  A caller that got Ok may take the   *)
(* next character and call parse_keta again, as parse_kansuji does and as  *)
(* the tests check_parse_keta_3 and check_parse_keta_5 do.                 *)
(***************************************************************************)
\* most characters taken from the cursor of parse_keta
MaxChars == 5

\* the characters a cursor yields: the glyph set and ho
CursorChar == Glyph \cup {"ho"}

\* chars.peek() after a chars.next(): any character, or None at the end
PeekAfter(n) == IF n < MaxChars THEN CursorChar \cup {None} ELSE {None}

InitKeta ==
    /\ pc = "loop"
    /\ locals = KetaInit
    /\ peeked \in PeekAfter(0)
    /\ consumed = 0
    /\ group = None
    /\ input = None /\ parsed = None
    /\ num = None /\ kansuji = None /\ back = None
    /\ text = None /\ reparsed = None /\ retext = None
    /\ width = None /\ millis = None

\* one iteration of the while loop (lib.rs 431-530)
KetaIterate ==
    /\ pc = "loop"
    /\ LET r == KetaStep(locals, peeked)
       IN IF locals.keta > 0
          THEN CASE r.kind = "next" ->
                      /\ locals' = r.st
                      /\ consumed' = consumed + 1
                      /\ peeked' \in PeekAfter(consumed + 1)
                      /\ UNCHANGED <<pc, group>>
                 [] r.kind = "break" ->
                      /\ locals' = r.st
                      /\ group' = Ok(KetaResult(r.st))
                      /\ pc' = "ok"
                      /\ UNCHANGED <<peeked, consumed>>
                 [] r.kind = "err" ->
                      /\ group' = UnexpectedChar(peeked)
                      /\ pc' = "err"
                      /\ UNCHANGED <<locals, peeked, consumed>>
          ELSE /\ group' = Ok(KetaResult(locals))
               /\ pc' = "ok"
               /\ UNCHANGED <<locals, peeked, consumed>>
    /\ UNCHANGED <<input, parsed, num, kansuji, back, text, reparsed, retext, numVars>>

\* chars.next() and a new call of parse_keta (lib.rs 582-583, 615-616)
CharsNext ==
    /\ pc = "ok"
    /\ peeked # None
    /\ consumed' = consumed + 1
    /\ peeked' \in PeekAfter(consumed + 1)
    /\ locals' = KetaInit
    /\ group' = None
    /\ pc' = "loop"
    /\ UNCHANGED <<input, parsed, num, kansuji, back, text, reparsed, retext, numVars>>

NextKeta == KetaIterate \/ CharsNext

SpecKeta == InitKeta /\ [][NextKeta]_vars

(***************************************************************************)
(* Rendering a float: Kansuji::from(value).to_string(), as the tests       *)
(* check_kansuji_2 and check_kansuji_3 do.                                 *)
(***************************************************************************)
\* (f * 1000.0) as usize for the fraction f of a float, 0 <= f < 1
Millis == 0..999

InitFloat ==
    /\ pc = "float"
    /\ num \in TestVector
    /\ millis \in Millis
    /\ input = None /\ parsed = None
    /\ kansuji = None /\ back = None
    /\ text = None /\ reparsed = None /\ retext = None
    /\ locals = None /\ peeked = None /\ consumed = 0 /\ group = None
    /\ width = None

FromFloat ==
    /\ pc = "float"
    /\ kansuji' = FromF64(num, millis)
    /\ pc' = "fromfloat"
    /\ UNCHANGED <<input, parsed, num, back, text, reparsed, retext>>
    /\ UNCHANGED <<ketaVars, numVars>>

FloatToString ==
    /\ pc = "fromfloat"
    /\ text' = to_string(kansuji)
    /\ pc' = "floatstring"
    /\ UNCHANGED <<input, parsed, num, kansuji, back, reparsed, retext>>
    /\ UNCHANGED <<ketaVars, numVars>>

NextFloat == FromFloat \/ FloatToString

SpecFloat == InitFloat /\ [][NextFloat]_vars

(***************************************************************************)
(* Converting an unsigned integer of any width: Kansuji::from(value) and   *)
(* back with u128::from.                                                   *)
(***************************************************************************)
\* a <= b for two numbers given by their digits
RECURSIVE LeqFrom(_, _, _)
LeqFrom(a, b, i) ==
    IF i = 0 THEN TRUE
    ELSE IF a[i] # b[i] THEN a[i] < b[i]
    ELSE LeqFrom(a, b, i - 1)

Leq(a, b) == Len(a) < Len(b) \/ (Len(a) = Len(b) /\ LeqFrom(a, b, Len(a)))

\* u16::MAX, u32::MAX, u64::MAX and u128::MAX
U16Max == Digits(65535)

U32Max == <<5, 9, 2, 7, 6, 9, 4, 9, 2, 4>>

U64Max == <<5, 1, 6, 1, 5, 5, 9, 0, 7, 3, 7, 0, 4, 4, 7, 6, 4, 4, 8, 1>>

U128Max == <<5, 5, 4, 1, 1, 2, 8, 6, 7, 1, 3, 4, 7, 0, 6, 4, 7, 3, 3, 6, 4, 3, 6, 4, 8, 3, 9, 0, 2, 9, 6, 6, 3, 2, 8, 2, 0, 4, 3>>

\* numbers of 10^24 and more: the sampled numbers times 10^14, 10^24 itself,
\* the number of 38 nines
Beyond ==
    {MulPow10(d, 14) : d \in Numbers} \cup {MulPow10(Digits(1), 24)}
    \cup {[i \in 1..38 |-> 9]}

Width == {"u8", "u16", "u32", "u64", "usize", "u128"}

MaxOf(w) ==
    CASE w = "u8" -> Digits(255)
      [] w = "u16" -> U16Max
      [] w = "u32" -> U32Max
      [] w = "u64" -> U64Max
      [] w = "usize" -> U64Max
      [] w = "u128" -> U128Max

\* the values of a width the model converts
ValuesOf(w) ==
    IF w = "u8"
    THEN {Digits(n) : n \in 0..255}
    ELSE {d \in Numbers \cup Beyond : Leq(d, MaxOf(w))} \cup {MaxOf(w)}

InitInt ==
    /\ pc = "int"
    /\ width \in Width
    /\ num \in ValuesOf(width)
    /\ input = None /\ parsed = None
    /\ kansuji = None /\ back = None
    /\ text = None /\ reparsed = None /\ retext = None
    /\ locals = None /\ peeked = None /\ consumed = 0 /\ group = None
    /\ millis = None

\* the state after Kansuji::from(num) has returned k
Converted(k) ==
    /\ kansuji' = k
    /\ pc' = "fromint"
    /\ UNCHANGED <<input, parsed, num, back, text, reparsed, retext>>
    /\ UNCHANGED <<ketaVars, numVars>>

KansujiFromU8 == pc = "int" /\ width = "u8" /\ Converted(FromU8(num))

KansujiFromU16 == pc = "int" /\ width = "u16" /\ Converted(FromU16(num))

KansujiFromU32 == pc = "int" /\ width = "u32" /\ Converted(FromU32(num))

KansujiFromU64 == pc = "int" /\ width = "u64" /\ Converted(FromU64(num))

KansujiFromUsize == pc = "int" /\ width = "usize" /\ Converted(FromUsize(num))

KansujiFromU128 == pc = "int" /\ width = "u128" /\ Converted(FromU128(num))

U128From ==
    /\ pc = "fromint"
    /\ back' = IntoU128(kansuji)
    /\ pc' = "intoint"
    /\ UNCHANGED <<input, parsed, num, kansuji, text, reparsed, retext>>
    /\ UNCHANGED <<ketaVars, numVars>>

NextInt ==
    \/ KansujiFromU8
    \/ KansujiFromU16
    \/ KansujiFromU32
    \/ KansujiFromU64
    \/ KansujiFromUsize
    \/ KansujiFromU128
    \/ U128From

SpecInt == InitInt /\ [][NextInt]_vars

(***************************************************************************)
(* Claims on the conversions of a number (checked under SpecNum).          *)
(***************************************************************************)
\* the text of the reparse step has been parsed
Reparsed == pc \in {"reparsed", "done", "panic"}

\* C1: for every n of the supported range, parsing the rendering of
\* Kansuji::from(n) returns Ok(Kansuji::from(n)), and rendering that result
\* again gives the same text.
C1_RenderParseRoundTrip ==
    /\ Reparsed => reparsed = Ok(kansuji)
    /\ pc # "panic"
    /\ pc = "done" => retext = text

\* C2: for every n of the supported range, u128::from(Kansuji::from(n)) = n.
C2_IntegerRoundTrip ==
    pc \in {"into", "string", "reparsed", "done", "panic"} => back = num

\* C2 witness: the round trip of a number that fills all six groups
C2_Witness ==
    /\ pc = "into"
    /\ num = Largest
    /\ \A g \in {"gai", "kei", "tyou", "oku", "man", "iti"} : ~is_zero(kansuji[g])
    /\ back = num

\* C10: every value whose base group has the units digit iti renders with
\* the glyph iti in the units position of the base segment, which is the end
\* of the text when the fractional digits are rei.
C10_UnitsDigitRendered ==
    (pc \in {"string", "reparsed", "done", "panic"} /\ kansuji.iti.iti = "iti")
        => text[Len(text)] = "iti"

(***************************************************************************)
(* The notation, stated on the text alone: what the claims on the parser   *)
(* call a well-formed group, a marker's level and the value a text denotes.*)
(***************************************************************************)
NonZeroDigit == Digit \ {"rei"}

\* the level of a magnitude or fractional marker
Level(c) ==
    CASE c = "gai" -> 5
      [] c = "kei" -> 4
      [] c = "tyou" -> 3
      [] c = "oku" -> 2
      [] c = "man" -> 1
      [] c = "bu" -> -1
      [] c = "rin" -> -2
      [] c = "mou" -> -3

\* the place of a place marker
PlaceRank(c) ==
    CASE c = "sen" -> 3
      [] c = "hyaku" -> 2
      [] c = "juu" -> 1

\* a well-formed group: digits iti..kyuu and place markers, no two digits in
\* a row, the place markers in strictly descending order
WellFormedGroup(g) ==
    /\ \A i \in 1..Len(g) : g[i] \in NonZeroDigit \cup Place
    /\ \A i \in 1..(Len(g) - 1) : ~(g[i] \in Digit /\ g[i + 1] \in Digit)
    /\ \A i, j \in 1..Len(g) :
         (i < j /\ g[i] \in Place /\ g[j] \in Place) => PlaceRank(g[i]) > PlaceRank(g[j])

\* the digit a well-formed group gives to the place p: the digit before the
\* marker, iti when the marker stands alone, rei when the marker is absent
GroupSlot(g, p) ==
    IF \E i \in 1..Len(g) : g[i] = p
    THEN LET i == CHOOSE i \in 1..Len(g) : g[i] = p
         IN IF i > 1 /\ g[i - 1] \in Digit THEN g[i - 1] ELSE "iti"
    ELSE "rei"

\* the units digit of a well-formed group: its last character if a digit
GroupUnits(g) ==
    IF g # << >> /\ g[Len(g)] \in Digit THEN g[Len(g)] ELSE "rei"

GroupValue(g) ==
    [sen |-> GroupSlot(g, "sen"), hyaku |-> GroupSlot(g, "hyaku"),
     juu |-> GroupSlot(g, "juu"), iti |-> GroupUnits(g)]

\* the group that ends before position i of s: the characters after the last
\* magnitude marker before i
GroupBefore(s, i) ==
    LET before == {j \in 1..(i - 1) : s[j] \in Magnitude}
        start == IF before = {} THEN 1
                 ELSE 1 + CHOOSE j \in before : \A h \in before : h <= j
    IN SubSeq(s, start, i - 1)

\* the magnitude markers of s are in strictly descending order
Descending(s) ==
    \A i, j \in 1..Len(s) :
        (i < j /\ s[i] \in Magnitude /\ s[j] \in Magnitude) => Level(s[i]) > Level(s[j])

\* a text of well-formed groups separated by magnitude markers in strictly
\* descending order
WellFormedText(s) ==
    /\ \A i \in 1..Len(s) : s[i] \in NonZeroDigit \cup Place \cup Magnitude
    /\ Descending(s)
    /\ \A i \in 1..(Len(s) + 1) :
         (i = Len(s) + 1 \/ s[i] \in Magnitude) => WellFormedGroup(GroupBefore(s, i))

\* the group a well-formed text gives to the slot of the marker m
SlotOf(s, m) ==
    IF \E i \in 1..Len(s) : s[i] = m
    THEN GroupValue(GroupBefore(s, CHOOSE i \in 1..Len(s) : s[i] = m))
    ELSE KetaDefault

\* the value a well-formed text denotes
TextValue(s) ==
    [gai |-> SlotOf(s, "gai"), kei |-> SlotOf(s, "kei"), tyou |-> SlotOf(s, "tyou"),
     oku |-> SlotOf(s, "oku"), man |-> SlotOf(s, "man"),
     iti |-> GroupValue(GroupBefore(s, Len(s) + 1)),
     bu |-> "rei", rin |-> "rei", mou |-> "rei"]

\* a text of digits iti..kyuu, each followed by a fractional marker, the
\* markers in strictly descending order
FractionText(s) ==
    /\ s # << >>
    /\ Len(s) % 2 = 0
    /\ \A i \in 1..Len(s) :
         IF i % 2 = 1 THEN s[i] \in NonZeroDigit ELSE s[i] \in Fraction
    /\ \A i, j \in 1..Len(s) :
         (i < j /\ i % 2 = 0 /\ j % 2 = 0) => Level(s[i]) > Level(s[j])

\* the fractional digit a fraction text gives to the slot of the marker m
FractionOf(s, m) ==
    IF \E i \in 1..Len(s) : s[i] = m
    THEN s[(CHOOSE i \in 1..Len(s) : s[i] = m) - 1]
    ELSE "rei"

(***************************************************************************)
(* Claims on the parser (checked under Spec).                              *)
(***************************************************************************)
\* C3: every text of well-formed groups separated by magnitude markers
\* (gai, kei, tyou, oku, man) in strictly descending order parses to Ok, each
\* group in the slot of the marker that follows it, the final group in the
\* base slot, every other group and the fractional digits rei.
C3_MagnitudeAccepted ==
    (pc = "parsed" /\ WellFormedText(input)) => parsed = Ok(TextValue(input))

\* C4: a digit followed by a fractional marker (bu, rin, mou), the markers
\* in descending order, parses to Ok with that digit in the marker's slot.
C4_FractionAccepted ==
    (pc = "parsed" /\ FractionText(input)) =>
        /\ parsed.ok
        /\ \A m \in Fraction : parsed.value[m] = FractionOf(input, m)

\* a magnitude or fractional marker of s is repeated or stands after a
\* marker of equal or lower significance
MarkerOutOfOrder(s) ==
    \E i, j \in 1..Len(s) :
        /\ i < j
        /\ s[i] \in Magnitude \cup Fraction
        /\ s[j] \in Magnitude \cup Fraction
        /\ Level(s[j]) >= Level(s[i])

\* position i of s holds a place marker with a digit other than rei: the
\* thousands, hundreds or tens digit it commits is non-zero
NonZeroPlace(s, i) ==
    s[i] \in Place /\ ~(i > 1 /\ s[i - 1] = "rei")

\* a fractional marker of s follows a group with a non-zero thousands,
\* hundreds or tens digit
FractionAfterPlaces(s) ==
    \E i, j \in 1..Len(s) :
        /\ i < j
        /\ s[j] \in Fraction
        /\ NonZeroPlace(s, i)
        /\ \A h \in i..(j - 1) : s[h] \in Digit \cup Place

\* C5: a text in which a magnitude or fractional marker is repeated, or
\* stands after a marker of equal or lower significance, or in which a
\* fractional marker follows a group with a non-zero thousands, hundreds or
\* tens digit, parses to Err(UnexpectedChar(_)), never to Ok.
C5_MarkerMisuseErrors ==
    (pc = "parsed" /\ (MarkerOutOfOrder(input) \/ FractionAfterPlaces(input))) =>
        (~parsed.ok /\ parsed.err = "UnexpectedChar")

\* C5 witness: a repeated marker after two accepted groups is refused
C5_Witness ==
    /\ pc = "parsed"
    /\ input = <<"iti", "man", "ni", "man">>
    /\ MarkerOutOfOrder(input)
    /\ parsed = UnexpectedChar("man")

\* position j of s holds a place marker that repeats, or follows, a
\* lower-or-equal place marker of the same group
PlaceOffence(s, j) ==
    /\ s[j] \in Place
    /\ \E i \in 1..(j - 1) :
         /\ s[i] \in Place
         /\ PlaceRank(s[j]) >= PlaceRank(s[i])
         /\ \A h \in i..j : s[h] \in Digit \cup Place

Prefix(s, k) == SubSeq(s, 1, k)

C8_EmptyAndErrorKinds ==
    pc = "parsed" =>
        /\ input = << >> => parsed = Ok(KansujiDefault)
        /\ ~parsed.ok => parsed.err = "UnexpectedChar"

\* C8 witness: the empty text has been parsed
C8_Witness ==
    /\ pc = "parsed"
    /\ input = << >>
    /\ parsed.ok
    /\ AllZero(parsed.value)

\* C9: once the level is at or below the base level, here after an accepted
\* fraction text, a following character that is neither a digit nor a marker
\* stops the parse without an error: the result is Ok with the value
\* accumulated so far.
C9_TrailingContentIgnored ==
    \A k \in 1..Len(input) :
        (pc = "parsed" /\ input[k] \notin Glyph /\ FractionText(Prefix(input, k - 1))) =>
            /\ parsed.ok
            /\ \A m \in Fraction : parsed.value[m] = FractionOf(Prefix(input, k - 1), m)

(***************************************************************************)
(* Claims on the Group Parser, parse_keta (checked under SpecKeta).        *)
(***************************************************************************)
\* the slots of the locals other than those of the set S are left alone
SlotsKept(S) ==
    \A f \in {"sen", "hyaku", "juu", "iti"} \ S : locals'[f] = locals[f]

\* C11: each of the ten digit glyphs rei, iti, ..., kyuu met by the Group
\* Parser is accepted and consumed and becomes the pending digit, replacing
\* an earlier pending digit; the ceiling and the slots are left alone.
C11_DigitAccepted ==
    [][(pc = "loop" /\ peeked \in Digit) =>
          /\ pc' = "loop"
          /\ consumed' = consumed + 1
          /\ locals'.field = peeked
          /\ locals'.keta = locals.keta
          /\ SlotsKept({})]_vars

\* the group parse_keta returns when it ends on the current character: the
\* slots committed so far, the pending digit (rei if none) as the units
GroupSoFar ==
    [sen |-> IF locals.sen # None THEN locals.sen ELSE "rei",
     hyaku |-> IF locals.hyaku # None THEN locals.hyaku ELSE "rei",
     juu |-> IF locals.juu # None THEN locals.juu ELSE "rei",
     iti |-> IF locals.field # None THEN locals.field ELSE "rei"]

\* C14: on a magnitude marker (man, oku, tyou, kei, gai) or the end of the
\* input the Group Parser returns Ok with the slots committed so far and the
\* pending digit (rei if none) as the units, and does not consume the
\* marker: the cursor still peeks it.
C14_GroupTermination ==
    [][(pc = "loop" /\ peeked \in Magnitude \cup {None}) =>
          /\ pc' = "ok"
          /\ group' = Ok(GroupSoFar)
          /\ peeked' = peeked
          /\ consumed' = consumed]_vars

\* C15: a place marker (sen, hyaku, juu) whose place is strictly below the
\* ceiling is accepted and consumed; it writes the pending digit, or iti when
\* none is pending, into the slot of its place, clears the pending digit,
\* lowers the ceiling to its place and leaves the other slots alone.  So sen
\* alone is 1000 and hyaku san juu iti is 131.
C15_PlaceCommit ==
    /\ KetaToUsize(parse_keta(<<"sen">>, 1).res.value) = 1000
    /\ KetaToUsize(parse_keta(<<"hyaku", "san", "juu", "iti">>, 1).res.value) = 131
    /\ [][(pc = "loop" /\ peeked \in Place /\ PlaceRank(peeked) < locals.keta) =>
            /\ pc' = "loop"
            /\ consumed' = consumed + 1
            /\ locals'[peeked] =
                   (IF locals.field # None THEN locals.field ELSE "iti")
            /\ locals'.field = None
            /\ locals'.keta = PlaceRank(peeked)
            /\ SlotsKept({peeked})]_vars

\* C15 witness: after sen alone and kyuu hyaku the slots hold iti and kyuu,
\* no digit is pending and the ceiling is the hundreds
C15_Witness ==
    /\ pc = "loop"
    /\ consumed = 3
    /\ locals.sen = "iti"
    /\ locals.hyaku = "kyuu"
    /\ locals.field = None
    /\ locals.keta = 2

(***************************************************************************)
(* Claims on the rendering of the fractional digits (checked under         *)
(* SpecFloat).                                                             *)
(***************************************************************************)
IsFractionMark(c) == c \in Fraction

\* the suffix markers a value must show: those of its non-zero digits
MarksOf(k) ==
    (IF k.bu # "rei" THEN <<"bu">> ELSE << >>)
    \o (IF k.rin # "rei" THEN <<"rin">> ELSE << >>)
    \o (IF k.mou # "rei" THEN <<"mou">> ELSE << >>)

\* from the first suffix marker on, t holds digits and suffix markers only,
\* and its last character is a suffix marker
EndsWithFraction(t) ==
    /\ t[Len(t)] \in Fraction
    /\ \A i \in 1..Len(t) : \A j \in i..Len(t) :
           t[i] \in Fraction => t[j] \in Digit \cup Fraction

BaseOne == [KansujiDefault EXCEPT !.iti = KetaFromUsize(1)]

\* C12: the text of a non-zero value shows the suffixes bu, rin, mou, in
\* that order, each exactly when its fractional digit is not rei, whatever
\* the other two digits are, and the fractional part ends the text; the base
\* group 1 with the digits (2,3,4) renders iti ni bu san rin yon mou and
\* with (2,0,3) iti ni bu san mou.
C12_FractionalSuffixes ==
    /\ to_string([BaseOne EXCEPT !.bu = "ni", !.rin = "san", !.mou = "yon"])
           = <<"iti", "ni", "bu", "san", "rin", "yon", "mou">>
    /\ to_string([BaseOne EXCEPT !.bu = "ni", !.mou = "san"])
           = <<"iti", "ni", "bu", "san", "mou">>
    /\ (pc = "floatstring" /\ ~AllZero(kansuji)) =>
           /\ SelectSeq(text, IsFractionMark) = MarksOf(kansuji)
           /\ MarksOf(kansuji) # << >> => EndsWithFraction(text)

\* C12 witness: 1.203 rendered, the middle suffix left out
C12_Witness ==
    /\ pc = "floatstring"
    /\ is_one(kansuji.iti)
    /\ kansuji.bu = "ni" /\ kansuji.rin = "rei" /\ kansuji.mou = "san"
    /\ text = <<"iti", "ni", "bu", "san", "mou">>

(***************************************************************************)
(* Claims on the integer conversions (checked under SpecInt).              *)
(***************************************************************************)
\* every slot of the group holds one of the ten digits
KetaDigits(k) ==
    k.sen \in Digit /\ k.hyaku \in Digit /\ k.juu \in Digit /\ k.iti \in Digit

\* no call of from_int has taken the unreachable!() branch
NoPanic(k) ==
    /\ KetaDigits(k.gai) /\ KetaDigits(k.kei) /\ KetaDigits(k.tyou)
    /\ KetaDigits(k.oku) /\ KetaDigits(k.man) /\ KetaDigits(k.iti)
    /\ k.bu \in Digit /\ k.rin \in Digit /\ k.mou \in Digit

\* C13: Kansuji::from of a u8, u16, u32, u64, usize or u128, numbers of
\* 10^24 and more included, hands from_int numbers of 0..9 only, so the
\* unreachable branch is never taken; and the sum u128::from computes for
\* the value is below 10^24, which fits a u128.
C13_IntegerConversionsTotal ==
    /\ pc \in {"fromint", "intoint"} => NoPanic(kansuji)
    /\ pc = "intoint" => Len(back) <= 24 /\ Leq(back, Largest) /\ Leq(back, num)

\* C13 witness: u128::MAX converted and summed back to its 24 low digits
C13_Witness ==
    /\ pc = "intoint"
    /\ width = "u128"
    /\ num = U128Max
    /\ NoPanic(kansuji)
    /\ back = ModPow10(U128Max, 24)
    /\ Len(back) = 24

====
